---- MODULE Spec2Model ----
(***************************************************************************)
(* Model of the Event Finder (src/main.py): a Streamlit script that reads  *)
(* a location, queries SerpApi for events (get_data), renders the raw      *)
(* records and asks Gemini for a summary (ai_filtering).                   *)
(*                                                                         *)
(* Every run of the script body (main) is one user interaction.  The two   *)
(* blocking provider calls are the points where the environment chooses    *)
(* an outcome, so main is cut at these calls.                              *)
(***************************************************************************)
EXTENDS Naturals, Sequences, FiniteSets

VARIABLES
    env,                \* process environment: key name -> value or None
    secrets,            \* st.secrets: [available, store]
    location,           \* value of the st.text_input widget
    pc,                 \* position of the script run
    scraped_data,       \* main's local scraped_data (get_data's return value)
    filtered_response,  \* main's local filtered_response (ai_filtering's return value)
    display,            \* elements rendered by the current script run, in order
    calls,              \* outbound provider calls issued by the current run, in order
    trace,              \* invocations of get_data / ai_filtering in the current run
    results,            \* what search.get_dict() produced in the current run
    generation,         \* what the generative model produced in the current run
    previous            \* history: how the previous button run ended

vars == <<env, secrets, location, pc, scraped_data, filtered_response,
          display, calls, trace, results, generation, previous>>

----------------------------------------------------------------------------
(* Bounds and input sets *)

MaxResults == 6         \* longest 'news_results' list the provider returns

MaxRecords == 5         \* results['news_results'][:5]

None == "None"

Truthy(v) == v \notin {None, ""}

KeyNames == {"SERPAPI_KEY", "GOOGLE_API_KEY"}

EnvValues == {None, "", "env-key"}

SecretValues == {None, "secret-key"}

Locations == {"", "Paris", "Xyzzyville"}

Fields == {"title", "link", "source", "date", "snippet"}

\* provider entries; every field is present in one and absent from the other
EntryA == [title |-> "T1", link |-> "L1", source |-> "S1"]

EntryB == [date |-> "D2", snippet |-> "N2"]

EntryPool == {EntryA, EntryB}

SeqsUpTo(S, n) == UNION {[1..k -> S] : k \in 0..n}

\* outcomes of GoogleSearch(params).get_dict(): an exception, a dict without
\* 'news_results', or a dict with a (possibly empty) 'news_results' list
NoResults == [used |-> FALSE, raises |-> FALSE, has_news |-> FALSE, news |-> <<>>]

SearchOutcomes ==
    {[used |-> TRUE, raises |-> TRUE, has_news |-> FALSE, news |-> <<>>],
     [used |-> TRUE, raises |-> FALSE, has_news |-> FALSE, news |-> <<>>]}
    \cup {[used |-> TRUE, raises |-> FALSE, has_news |-> TRUE, news |-> s] :
             s \in SeqsUpTo(EntryPool, MaxResults)}

\* outcomes of model.generate_content(prompt) / response.text
NoGeneration == [used |-> FALSE, raises |-> FALSE, text |-> ""]

GenOutcomes ==
    {[used |-> TRUE, raises |-> TRUE, text |-> ""],
     [used |-> TRUE, raises |-> FALSE, text |-> "summary"],
     [used |-> TRUE, raises |-> FALSE, text |-> ""]}

----------------------------------------------------------------------------
(* Values *)

\* return values of get_data and ai_filtering; kind "raise" is an exception
\* leaving the function
RetNone == [kind |-> "None", list |-> <<>>, text |-> <<>>]

RetList(l) == [kind |-> "list", list |-> l, text |-> <<>>]

RetText(t) == [kind |-> "text", list |-> <<>>, text |-> t]

RetRaise(e) == [kind |-> "raise", list |-> <<>>, text |-> <<e>>]

\* Python truthiness of a return value: None, [] and '' are falsy
TruthyRet(r) ==
    \/ r.kind = "list" /\ r.list # <<>>
    \/ r.kind = "text" /\ r.text # <<>>

\* one Streamlit element
El(w, idx, body) == [w |-> w, idx |-> idx, body |-> body]

Query(loc) == <<"upcoming events in ", loc>>

Min(a, b) == IF a < b THEN a ELSE b

----------------------------------------------------------------------------
(* Credential lookup *)

getenv(name) == env[name]

\* st.secrets.get(name): None for a key that is not stored; raises when no
\* secrets file can be loaded
secrets_get(name) ==
    IF secrets.available
    THEN [raised |-> FALSE, val |-> secrets.store[name]]
    ELSE [raised |-> TRUE, val |-> None]

\* faulty variant: the key test is left out
KeyMissingNever(v) == FALSE

\* if not serpapi_key / if not google_api_key
KeyMissing(v) == ~Truthy(v)

\* os.getenv(name) or st.secrets.get(name)
ResolveKey(name) ==
    IF Truthy(getenv(name))
    THEN [raised |-> FALSE, val |-> getenv(name)]
    ELSE secrets_get(name)

----------------------------------------------------------------------------
(* get_data *)

\* item.get(f, default)
Get(item, f, default) == IF f \in DOMAIN item THEN item[f] ELSE default

\* faulty variant: 'link' read from the entry's 'title' key
EventRecordLinkFromTitle(item) ==
    [title   |-> Get(item, "title", "No title"),
     link    |-> Get(item, "title", "#"),
     source  |-> Get(item, "source", "Unknown source"),
     date    |-> Get(item, "date", "Date not available"),
     snippet |-> Get(item, "snippet", "No description")]

\* the dict built for one provider entry
EventRecord(item) ==
    [title   |-> Get(item, "title", "No title"),
     link    |-> Get(item, "link", "#"),
     source  |-> Get(item, "source", "Unknown source"),
     date    |-> Get(item, "date", "Date not available"),
     snippet |-> Get(item, "snippet", "No description")]

\* faulty variant: results['news_results'] without the slice
FirstResultsUncut(news) == news

\* results['news_results'][:5]
FirstResults(news) == SubSeq(news, 1, Min(Len(news), MaxRecords))

\* the list comprehension over the first results
Records(news) == [i \in 1..Len(FirstResults(news)) |-> EventRecord(FirstResults(news)[i])]

\* 'news_results' not in results or not results['news_results']
NoNews(r) == ~r.has_news \/ r.news = <<>>

SearchCall(key, loc) ==
    [api |-> "serpapi", key |-> key, q |-> Query(loc), data |-> <<>>, nodata |-> FALSE]

\* the body of get_data's try block, given the outcome r the provider would
\* produce; yields the return value (or the exception), the banners shown and
\* the provider calls made
get_data_try(loc, r) ==
    LET k == ResolveKey("SERPAPI_KEY") IN
    IF k.raised
    THEN [ret |-> RetRaise("secrets not found"), shown |-> <<>>, calls |-> <<>>]
    ELSE IF KeyMissing(k.val)
    THEN [ret |-> RetNone,
          shown |-> <<El("error", 0, <<"SERPAPI_KEY not found. Please configure your API keys.">>)>>,
          calls |-> <<>>]
    ELSE IF r.raises
    THEN [ret |-> RetRaise("search failed"), shown |-> <<>>,
          calls |-> <<SearchCall(k.val, loc)>>]
    ELSE IF NoNews(r)
    THEN [ret |-> RetNone, shown |-> <<>>, calls |-> <<SearchCall(k.val, loc)>>]
    ELSE [ret |-> RetList(Records(r.news)), shown |-> <<>>,
          calls |-> <<SearchCall(k.val, loc)>>]

\* faulty variant: no except clause, the exception leaves get_data
get_data_except_reraise(t) == t

\* except Exception as e: st.error(f"Error fetching data: {e}"); return None
get_data_except(t) ==
    IF t.ret.kind = "raise"
    THEN [ret |-> RetNone,
          shown |-> t.shown \o <<El("error", 0, <<"Error fetching data: ">> \o t.ret.text)>>,
          calls |-> t.calls]
    ELSE t

get_data(loc, r) == get_data_except(get_data_try(loc, r))

----------------------------------------------------------------------------
(* ai_filtering *)

\* str(scraped_data) if scraped_data else "No event data available."
GenerateCall(key, user_input, sd) ==
    [api |-> "gemini", key |-> key, q |-> user_input,
     data |-> IF TruthyRet(sd) THEN sd.list ELSE <<>>,
     nodata |-> ~TruthyRet(sd)]

\* the body of ai_filtering's try block, given the outcome g the model would
\* produce
ai_filtering_try(user_input, sd, g) ==
    LET k == ResolveKey("GOOGLE_API_KEY") IN
    IF k.raised
    THEN [ret |-> RetRaise("secrets not found"), shown |-> <<>>, calls |-> <<>>]
    ELSE IF KeyMissing(k.val)
    THEN [ret |-> RetNone,
          shown |-> <<El("error", 0, <<"GOOGLE_API_KEY not found. Please configure your API keys.">>)>>,
          calls |-> <<>>]
    ELSE IF g.raises
    THEN [ret |-> RetRaise("generation failed"), shown |-> <<>>,
          calls |-> <<GenerateCall(k.val, user_input, sd)>>]
    ELSE [ret |-> RetText(<<g.text>>), shown |-> <<>>,
          calls |-> <<GenerateCall(k.val, user_input, sd)>>]

\* faulty variant: no except clause, the exception leaves ai_filtering
ai_filtering_except_reraise(t) == t

\* except Exception as e: return f"Error in AI filtering: {e}"
ai_filtering_except(t) ==
    IF t.ret.kind = "raise"
    THEN [ret |-> RetText(<<"Error in AI filtering: ">> \o t.ret.text),
          shown |-> t.shown, calls |-> t.calls]
    ELSE t

ai_filtering(user_input, sd, g) == ai_filtering_except(ai_filtering_try(user_input, sd, g))

----------------------------------------------------------------------------
(* main: one run of the script *)

Unset == [kind |-> "unset", list |-> <<>>, text |-> <<>>]

\* st.title / st.write at the top of every run
Header ==
    <<El("title", 0, <<"Local Event Finder">>),
      El("write", 0, <<"Discover upcoming events in your area!">>)>>

LocationWarning == El("warning", 0, <<"Please enter a location to search for events.">>)

NoEventsWarning == El("warning", 0, <<"No events found for this location.">>)

SummaryHeader == El("subheader", 0, <<"Upcoming Events Summary">>)

SuggestionsHeader == El("subheader", 0, <<"Curated Event Suggestions">>)

\* the st.markdown block of one event inside the expander
EventEntry(idx, event) ==
    El("event", idx, <<event.title, event.source, event.date, event.snippet, event.link>>)

\* faulty variant: the loop starts at the second record
RawEntriesSkipFirst(list) == [i \in 1..(Len(list) - 1) |-> EventEntry(i, list[i + 1])]

\* for idx, event in enumerate(scraped_data, 1)
RawEntries(list) == [i \in 1..Len(list) |-> EventEntry(i, list[i])]

\* st.markdown(filtered_response): the text, or str(None)
SummaryBody(r) == IF r.kind = "text" THEN r.text ELSE <<"None">>

\* faulty variant: the output of the previous run stays on the page
FreshDisplayKept == IF pc = "done" THEN display ELSE Header

\* a script run starts from an empty page and fresh locals
FreshDisplay == Header

FreshCalls == <<>>

\* the script is waiting for the next interaction
Resting == pc \in {"start", "done", "crashed"}

\* faulty variant: the location test is left out
HasLocationAlways == TRUE

\* if location
HasLocation == location # ""

\* how the run that has just ended went, for the history variable
Outcome ==
    IF pc = "start" THEN previous
    ELSE IF pc = "crashed" THEN "crashed"
    ELSE IF ~HasLocation THEN "empty_location"
    ELSE IF filtered_response.kind = "unset" THEN "no_events"
    ELSE IF filtered_response.kind = "text" /\ generation.used /\ ~generation.raises THEN "summary"
    ELSE "summary_error"

\* faulty variant: if scraped_data == []
NotScrapedEmptyListOnly == scraped_data.kind = "list" /\ scraped_data.list = <<>>

\* if not scraped_data
NotScraped == ~TruthyRet(scraped_data)

Init ==
    /\ env \in [KeyNames -> EnvValues]
    /\ secrets \in {[available |-> FALSE, store |-> [k \in KeyNames |-> None]]}
                   \cup {[available |-> TRUE, store |-> s] : s \in [KeyNames -> SecretValues]}
    /\ location = ""
    /\ pc = "start"
    /\ scraped_data = Unset
    /\ filtered_response = Unset
    /\ display = Header
    /\ calls = <<>>
    /\ trace = <<>>
    /\ results = NoResults
    /\ generation = NoGeneration
    /\ previous = "none"

\* the user edits the text input: the script reruns with the button unpressed
TextInput(l) ==
    /\ Resting
    /\ l # location
    /\ location' = l
    /\ pc' = "start"
    /\ scraped_data' = Unset
    /\ filtered_response' = Unset
    /\ display' = FreshDisplay
    /\ calls' = FreshCalls
    /\ trace' = <<>>
    /\ results' = NoResults
    /\ generation' = NoGeneration
    /\ previous' = Outcome
    /\ UNCHANGED <<env, secrets>>

\* the user presses "Find Events": the script reruns up to the search call,
\* or to its end when the location is empty
FindEvents ==
    /\ Resting
    /\ scraped_data' = Unset
    /\ filtered_response' = Unset
    /\ calls' = FreshCalls
    /\ trace' = <<>>
    /\ results' = NoResults
    /\ generation' = NoGeneration
    /\ previous' = Outcome
    /\ IF HasLocation
       THEN /\ display' = FreshDisplay
            /\ pc' = "get_data"
       ELSE /\ display' = FreshDisplay \o <<LocationWarning>>
            /\ pc' = "done"
    /\ UNCHANGED <<env, secrets, location>>

\* scraped_data = get_data(location)
GetData ==
    /\ pc = "get_data"
    /\ \E r \in SearchOutcomes :
         LET g == get_data(location, r) IN
           /\ scraped_data' = g.ret
           /\ display' = display \o g.shown
           /\ calls' = calls \o g.calls
           /\ results' = IF g.calls # <<>> THEN r ELSE NoResults
           /\ pc' = IF g.ret.kind = "raise" THEN "crashed" ELSE "check"
    /\ trace' = Append(trace, [fn |-> "get_data", loc |-> location])
    /\ UNCHANGED <<env, secrets, location, filtered_response, generation, previous>>

\* if not scraped_data: st.warning(...); return
NoEvents ==
    /\ pc = "check"
    /\ NotScraped
    /\ display' = Append(display, NoEventsWarning)
    /\ pc' = "done"
    /\ UNCHANGED <<env, secrets, location, scraped_data, filtered_response,
                   calls, trace, results, generation, previous>>

\* the subheader and the expander with one block per record; iterating
\* over a value that is not a list is an unhandled TypeError
RenderEvents ==
    /\ pc = "check"
    /\ ~NotScraped
    /\ IF scraped_data.kind = "list"
       THEN /\ display' = display \o <<SummaryHeader>> \o RawEntries(scraped_data.list)
            /\ pc' = "ai_filtering"
       ELSE /\ display' = Append(display, SummaryHeader)
            /\ pc' = "crashed"
    /\ UNCHANGED <<env, secrets, location, scraped_data, filtered_response,
                   calls, trace, results, generation, previous>>

\* filtered_response = ai_filtering(user_input, scraped_data)
AiFiltering ==
    /\ pc = "ai_filtering"
    /\ \E g \in GenOutcomes :
         LET a == ai_filtering(Query(location), scraped_data, g) IN
           /\ filtered_response' = a.ret
           /\ display' = display \o a.shown
           /\ calls' = calls \o a.calls
           /\ generation' = IF a.calls # <<>> THEN g ELSE NoGeneration
           /\ pc' = IF a.ret.kind = "raise" THEN "crashed" ELSE "show"
    /\ trace' = Append(trace, [fn |-> "ai_filtering", loc |-> location])
    /\ UNCHANGED <<env, secrets, location, scraped_data, results, previous>>

\* st.subheader(...); st.markdown(filtered_response)
ShowSummary ==
    /\ pc = "show"
    /\ display' = display \o <<SuggestionsHeader, El("markdown", 0, SummaryBody(filtered_response))>>
    /\ pc' = "done"
    /\ UNCHANGED <<env, secrets, location, scraped_data, filtered_response,
                   calls, trace, results, generation, previous>>

Next ==
    \/ \E l \in Locations : TextInput(l)
    \/ FindEvents
    \/ GetData
    \/ NoEvents
    \/ RenderEvents
    \/ AiFiltering
    \/ ShowSummary

Spec == Init /\ [][Next]_vars

TypeOK ==
    /\ location \in Locations
    /\ pc \in {"start", "get_data", "check", "ai_filtering", "show", "done", "crashed"}
    /\ scraped_data.kind \in {"unset", "None", "list", "raise"}
    /\ filtered_response.kind \in {"unset", "None", "text", "raise"}
    /\ previous \in {"none", "crashed", "empty_location", "no_events", "summary", "summary_error"}

----------------------------------------------------------------------------
(* main as one sequential function of its inputs: the location, what the   *)
(* search returned and what the model returned                             *)

MainRun(loc, r, g) ==
    IF loc = ""
    THEN [display |-> Header \o <<LocationWarning>>, calls |-> <<>>]
    ELSE LET d == get_data(loc, r) IN
         IF ~TruthyRet(d.ret)
         THEN [display |-> Header \o d.shown \o <<NoEventsWarning>>, calls |-> d.calls]
         ELSE LET a == ai_filtering(Query(loc), d.ret, g) IN
              [display |-> Header \o d.shown \o <<SummaryHeader>> \o RawEntries(d.ret.list)
                             \o a.shown
                             \o <<SuggestionsHeader, El("markdown", 0, SummaryBody(a.ret))>>,
               calls |-> d.calls \o a.calls]

----------------------------------------------------------------------------
(* Vocabulary of the properties *)

Invoked(fn) == \E i \in DOMAIN trace : trace[i].fn = fn

CallsTo(api) == {i \in DOMAIN calls : calls[i].api = api}

Shows(e) == \E i \in DOMAIN display : display[i] = e

EventIdx == {i \in DOMAIN display : display[i].w = "event"}

\* the key has no usable value in the environment nor in the secret store
Absent(name) ==
    /\ env[name] \in {None, ""}
    /\ secrets.available => secrets.store[name] \in {None, ""}

SerpKeyError == El("error", 0, <<"SERPAPI_KEY not found. Please configure your API keys.">>)

GoogleKeyError == El("error", 0, <<"GOOGLE_API_KEY not found. Please configure your API keys.">>)

IsAiErrorText(t) == Len(t) >= 1 /\ t[1] = "Error in AI filtering: "

Placeholder ==
    [title |-> "No title", link |-> "#", source |-> "Unknown source",
     date |-> "Date not available", snippet |-> "No description"]

----------------------------------------------------------------------------
(* Properties *)

\* C1: in a Find Events run with a non-empty location, when get_data returns
\* no usable record the run ends with the 'No events found' warning and
\* ai_filtering is not invoked; ai_filtering is invoked only after get_data
\* has returned at least one record.
C1_NoRecordNoSummary ==
    /\ (Invoked("get_data") /\ ~TruthyRet(scraped_data)) =>
          /\ ~Invoked("ai_filtering")
          /\ CallsTo("gemini") = {}
          /\ Resting => /\ pc = "done"
                        /\ display[Len(display)] = NoEventsWarning
    /\ Invoked("ai_filtering") =>
          /\ trace[1].fn = "get_data"
          /\ scraped_data.kind = "list"
          /\ Len(scraped_data.list) >= 1

C1_Witness ==
    /\ pc = "done"
    /\ location = "Xyzzyville"
    /\ results.used /\ results.has_news /\ results.news = <<>>
    /\ scraped_data.kind = "None"
    /\ Shows(NoEventsWarning)
    /\ ~Invoked("ai_filtering")

\* C2: for a provider response with n >= 1 news_results, get_data returns
\* exactly min(n, 5) records, the i-th built from the i-th entry; never more
\* than 5 records.
C2_FirstFiveInOrder ==
    /\ scraped_data.kind = "list" => Len(scraped_data.list) <= 5
    /\ (results.used /\ ~results.raises /\ results.has_news /\ Len(results.news) >= 1) =>
          /\ scraped_data.kind = "list"
          /\ Len(scraped_data.list) = Min(Len(results.news), 5)
          /\ \A i \in 1..Len(scraped_data.list) :
               \A f \in DOMAIN results.news[i] :
                  scraped_data.list[i][f] = results.news[i][f]

C2_Witness ==
    /\ scraped_data.kind = "list"
    /\ Len(results.news) > 5
    /\ Len(scraped_data.list) = 5
    /\ results.news[1] # results.news[2]

\* C3: every record returned by get_data has exactly the five fields; a field
\* the provider entry lacks carries its placeholder, a field it has carries
\* the provider's value.
C3_PlaceholdersForMissing ==
    scraped_data.kind = "list" =>
       \A i \in 1..Len(scraped_data.list) :
          /\ DOMAIN scraped_data.list[i] = Fields
          /\ \A f \in Fields :
               scraped_data.list[i][f] =
                  IF f \in DOMAIN results.news[i] THEN results.news[i][f] ELSE Placeholder[f]

C3_Witness ==
    /\ scraped_data.kind = "list"
    /\ Len(scraped_data.list) >= 2
    /\ results.news[1] = EntryA
    /\ results.news[2] = EntryB
    /\ scraped_data.list[1].date = "Date not available"
    /\ scraped_data.list[2].title = "No title"

\* C4 (as claimed): every call of ai_filtering returns a text value.
C4_AlwaysText ==
    Invoked("ai_filtering") => filtered_response.kind = "text"

\* C4 (amended): no exception leaves ai_filtering; it returns None, after
\* showing the GOOGLE_API_KEY banner, exactly when the key resolves to no
\* usable value, and otherwise a text: the model's text or an
\* 'Error in AI filtering: ...' string.
C4_TextOrNoneNeverRaises ==
    Invoked("ai_filtering") =>
       /\ pc # "crashed"
       /\ filtered_response.kind \in {"text", "None"}
       /\ filtered_response.kind = "None" <=>
             /\ env["GOOGLE_API_KEY"] \in {None, ""}
             /\ secrets.available
             /\ secrets.store["GOOGLE_API_KEY"] \in {None, ""}
       /\ filtered_response.kind = "None" => Shows(GoogleKeyError) /\ ~generation.used
       /\ filtered_response.kind = "text" =>
             IF generation.used /\ ~generation.raises
             THEN filtered_response.text = <<generation.text>>
             ELSE IsAiErrorText(filtered_response.text)

C4_Witness ==
    /\ Invoked("ai_filtering")
    /\ filtered_response.kind = "None"
    /\ pc = "show"

\* C5: with a credential absent from the environment and the secret store,
\* the step returns None or error text without raising, a configuration
\* error is shown and no call goes out to that step's provider.
C5_AbsentKeyNoCall ==
    /\ (Absent("SERPAPI_KEY") /\ Invoked("get_data")) =>
          /\ pc # "crashed"
          /\ scraped_data.kind = "None"
          /\ CallsTo("serpapi") = {}
          /\ \E i \in DOMAIN display :
               /\ display[i].w = "error"
               /\ display[i].body[1] \in {SerpKeyError.body[1], "Error fetching data: "}
    /\ (Absent("GOOGLE_API_KEY") /\ Invoked("ai_filtering")) =>
          /\ pc # "crashed"
          /\ filtered_response.kind \in {"None", "text"}
          /\ CallsTo("gemini") = {}
          /\ filtered_response.kind = "None" => Shows(GoogleKeyError)
          /\ filtered_response.kind = "text" =>
                /\ IsAiErrorText(filtered_response.text)
                /\ pc = "done" => Shows(El("markdown", 0, filtered_response.text))

C5_Witness ==
    /\ Absent("SERPAPI_KEY")
    /\ secrets.available
    /\ pc = "done"
    /\ Invoked("get_data")
    /\ Shows(SerpKeyError)
    /\ calls = <<>>

\* C6: when a key has different non-empty values in the secret store and in
\* the environment, the provider call uses the secret-store value.
C6_SecretStoreFirst ==
    \A i \in DOMAIN calls :
       LET name == IF calls[i].api = "serpapi" THEN "SERPAPI_KEY" ELSE "GOOGLE_API_KEY" IN
          (/\ secrets.available
           /\ Truthy(secrets.store[name])
           /\ Truthy(env[name])
           /\ secrets.store[name] # env[name]) => calls[i].key = secrets.store[name]

\* C7: when the search-provider call raises, get_data shows the error and
\* returns None as for an absent or empty result field; nothing propagates
\* and the provider is called at most once.
C7_SearchErrorCaught ==
    /\ Cardinality(CallsTo("serpapi")) <= 1
    /\ results.used => Cardinality(CallsTo("serpapi")) = 1
    /\ (results.used /\ results.raises) =>
          /\ pc # "crashed"
          /\ scraped_data = RetNone
          /\ Shows(El("error", 0, <<"Error fetching data: ", "search failed">>))
          /\ ~Invoked("ai_filtering")
    /\ (results.used /\ ~results.raises /\ (~results.has_news \/ results.news = <<>>)) =>
          scraped_data = RetNone

C7_Witness ==
    /\ results.used
    /\ results.raises
    /\ pc = "done"
    /\ scraped_data.kind = "None"
    /\ Len(calls) = 1

\* C8: when get_data returned records and the generative-model key is
\* missing, one raw entry per record is on the page before ai_filtering is
\* invoked, the configuration error appears after them, and the run does not
\* crash.
C8_RawListThenConfigError ==
    (Absent("GOOGLE_API_KEY") /\ TruthyRet(scraped_data) /\ pc # "check") =>
       /\ pc \in {"ai_filtering", "show", "done"}
       /\ Cardinality(EventIdx) = Len(scraped_data.list)
       /\ \A i \in 1..Len(scraped_data.list) :
            LET e == scraped_data.list[i] IN
               display[3 + i] = [w |-> "event", idx |-> i,
                                 body |-> <<e.title, e.source, e.date, e.snippet, e.link>>]
       /\ pc = "ai_filtering" => ~Invoked("ai_filtering")
       /\ Invoked("ai_filtering") =>
            /\ filtered_response.kind \in {"None", "text"}
            /\ filtered_response.kind = "None" =>
                  \E j \in DOMAIN display :
                     display[j] = GoogleKeyError /\ \A i \in EventIdx : i < j
            /\ filtered_response.kind = "text" =>
                  /\ IsAiErrorText(filtered_response.text)
                  /\ pc = "done" =>
                        \E j \in DOMAIN display :
                           /\ display[j] = El("markdown", 0, filtered_response.text)
                           /\ \A i \in EventIdx : i < j

C8_Witness ==
    /\ Absent("GOOGLE_API_KEY")
    /\ pc = "done"
    /\ scraped_data.kind = "list"
    /\ Len(scraped_data.list) >= 2
    /\ filtered_response.kind = "None"
    /\ Shows(GoogleKeyError)

\* C9: an error or empty outcome ends only its own run: Find Events can be
\* pressed again, and what a finished run shows and calls is what main
\* produces from this run's location, the credentials and this run's
\* provider responses, whatever the previous run was.
C9_RunsIndependent ==
    /\ Resting => ENABLED FindEvents
    /\ pc \in {"start", "get_data"} =>
          /\ calls = <<>> /\ trace = <<>> /\ display = Header
          /\ scraped_data = Unset /\ filtered_response = Unset
    /\ pc = "done" =>
          /\ display = MainRun(location, results, generation).display
          /\ calls = MainRun(location, results, generation).calls

C9_Witness ==
    /\ previous \in {"no_events", "summary_error", "empty_location"}
    /\ pc = "done"
    /\ Outcome = "summary"
    /\ Len(scraped_data.list) = 1

\* C10: Find Events with an empty location invokes neither get_data nor
\* ai_filtering, makes no provider call and shows the 'Please enter a
\* location' warning; get_data is only invoked with a non-empty location.
C10_EmptyLocationNoCalls ==
    /\ \A i \in DOMAIN trace : trace[i].loc # ""
    /\ \A i \in DOMAIN calls : calls[i].q[2] # ""
    /\ location = "" => pc \in {"start", "done"} /\ trace = <<>> /\ calls = <<>>
    /\ (location = "" /\ pc = "done") => display = Header \o <<LocationWarning>>

C10_Witness ==
    /\ location = ""
    /\ pc = "done"
    /\ Shows(LocationWarning)
    /\ previous = "summary"

====
